---- MODULE Spec2Model ----
(***************************************************************************)
(* A model of the Invoke task layer of the rush repository: the Rust API   *)
(* documentation scraper and the Markdown splicer of tasks/util/docs.py,   *)
(* the cargo helper of tasks/util/__init__.py and the build and run tasks  *)
(* of tasks/build.py and tasks/run.py, the test tasks of tasks/test.py and  *)
(* the clean tasks of tasks/clean.py.                                      *)
(*                                                                         *)
(* Text is a sequence of one-character strings.  Python indices are kept   *)
(* 0-based, as in the source; At(s, i) reads s[i].  None is the index -1.  *)
(***************************************************************************)
EXTENDS Integers, Sequences, FiniteSets, TLC

VARIABLES
    \* analyze_rust_module (tasks/util/docs.py)
    src_text,       \* content of the Rust module file
    lines,          \* f.readlines()
    pending,        \* what is left of the pub_fn_line_indices generator
    functions,      \* the functions list
    warnings,       \* def_lines logged as spurious, in order
    module,         \* <<the returned Module>>, empty until the return
    apc,            \* position in analyze_rust_module
    \* insert_api_docs (tasks/util/docs.py)
    file,           \* content of the target Markdown file
    file_before,    \* its content when the latest call began
    modules,        \* module.render() of each of the modules, in order
    begin_idx,      \* begin_idx of the latest call
    end_idx,        \* end_idx of the latest call
    result,         \* how the latest call ended
    calls,          \* number of calls made
    \* the tasks (tasks/build.py, tasks/run.py) and the cargo helper
    task,           \* the task invoked, or "cargo" for a call of the helper
    flags,          \* the task's release and verbose parameters
    sys_argv,       \* sys.argv of the process
    call,           \* cmd, args, crate and wait of a call of the helper
    tpc,            \* position in the task
    ran,            \* the commands ctx.run has run, in order
    exec_argv,      \* argv the process image was replaced with, if any
    cargo_ret,      \* <<what cargo() last returned to its caller>>
    rustc_v,        \* <<the Result of `rustc --version`>>
    returned,       \* what the task function that ended last returned
    exit_status,    \* status passed to sys.exit, None if not called
    error,          \* the exception that ended the task, if any
    readme,         \* content of README.md
    readme_before,  \* content of README.md when the task began
    \* the clean tasks (tasks/clean.py)
    mkdocs_yml,     \* whether mkdocs.yml exists in the working directory
    site_dir,       \* whether the docs output directory exists
    log,            \* what was logged and printed, in order
    \* run.docs (tasks/run.py)
    docs_args,      \* the task's port, reload and verbose parameters
    opc,            \* position of opener_thread in open_browser
    build_error_event,  \* the flag of the threading.Event
    wait_ret,       \* what build_error_event.wait returned, if it has
    tabs            \* the urls webbrowser.open_new_tab was given, in order

avars == <<src_text, lines, pending, functions, warnings, module, apc>>

svars == <<file, file_before, modules, begin_idx, end_idx, result, calls>>

tvars == <<task, flags, sys_argv, call, tpc, ran, exec_argv, cargo_ret, rustc_v,
           returned, exit_status, error, readme, readme_before>>

cvars == <<mkdocs_yml, site_dir, log>>

dvars == <<docs_args, opc, build_error_event, wait_ret, tabs>>

ovars == <<cvars, dvars>>

vars == <<avars, svars, tvars, ovars>>

(***************************************************************************)
(* Bounds of the model.                                                    *)
(***************************************************************************)
MaxSrcLines == 3

MaxMdLines == 4

MaxModules == 2

MaxCalls == 2

MaxArgs == 2

MaxReadmeLines == 3

None == -1

(***************************************************************************)
(* Python's str and list operations, as the code uses them.                *)
(***************************************************************************)
os_linesep == <<"\n">>

At(s, i) == s[i + 1]

\* s[i:]
SliceFrom(s, i) == SubSeq(s, i + 1, Len(s))

\* s[:i]
SliceTo(s, i) == SubSeq(s, 1, i)

\* the characters str.strip() removes
WHITESPACE == {" ", "\n"}

\* the characters \w matches
WORD == {"f", "g", "x", "a", "b", "p", "u", "n", "_"}

\* the number of characters of s from 0-based position from on that are in
\* chars, up to the first that is not
SpanLen(s, from, chars) ==
    LET stops == {k \in 0..(Len(s) - from) :
                     k = Len(s) - from \/ s[from + k + 1] \notin chars}
    IN  CHOOSE k \in stops : \A m \in stops : k <= m

\* the number of characters at the end of s that are in chars
TailLen(s, chars) ==
    LET stops == {k \in 0..Len(s) : k = Len(s) \/ s[Len(s) - k] \notin chars}
    IN  CHOOSE k \in stops : \A m \in stops : k <= m

lstrip(s) == SliceFrom(s, SpanLen(s, 0, WHITESPACE))

rstrip(s) == SliceTo(s, Len(s) - TailLen(s, WHITESPACE))

strip(s) == rstrip(lstrip(s))

\* s.lstrip('/')
lstrip_slash(s) == SliceFrom(s, SpanLen(s, 0, {"/"}))

startswith(s, p) == Len(s) >= Len(p) /\ SubSeq(s, 1, Len(p)) = p

\* p in s
contains(s, p) ==
    \E i \in 0..(Len(s) - Len(p)) : SubSeq(s, i + 1, i + Len(p)) = p

RECURSIVE readlines(_)
\* the lines of a text, each with its line terminator
readlines(text) ==
    IF text = <<>> THEN <<>>
    ELSE LET nl == {i \in 1..Len(text) : text[i] = "\n"}
             cut == IF nl = {} THEN Len(text)
                    ELSE CHOOSE i \in nl : \A k \in nl : i <= k
         IN  <<SubSeq(text, 1, cut)>> \o readlines(SubSeq(text, cut + 1, Len(text)))

RECURSIVE join(_, _)
\* sep.join(parts)
join(sep, parts) ==
    IF parts = <<>> THEN <<>>
    ELSE IF Len(parts) = 1 THEN parts[1]
    ELSE parts[1] \o sep \o join(sep, Tail(parts))

RECURSIVE reverse(_)
reverse(s) == IF s = <<>> THEN <<>> ELSE Append(reverse(Tail(s)), Head(s))

(***************************************************************************)
(* analyze_rust_module: the scraper of `pub fn` declarations.              *)
(***************************************************************************)
PUB_FN == <<"p", "u", "b", " ", "f", "n">>

DOC_MARK == <<"/", "/", "/">>

\* the lines a Rust module file is made of in this model
SrcLine ==
    { <<"/", "/", "/", " ", "a">>,                          \* "/// a"
      <<" ", "/", "/", "/", "b">>,                          \* " ///b"
      <<"/", "/", "/">>,                                    \* "///"
      <<"x">>,                                              \* "x"
      <<"p", "u", "b", " ", "f", "n", " ", "f", "(">>,      \* "pub fn f("
      <<"p", "u", "b", " ", "f", "n", " ", "g", "(", "x">>, \* "pub fn g(x"
      <<" ", "p", "u", "b", " ", "f", "n", " ", "f", "(">>, \* " pub fn f("
      <<"p", "u", "b", " ", "f", "n", " ", "f", "<">> }     \* "pub fn f<"

RECURSIVE SeqsUpTo(_, _)
\* the sequences over S of length at most n
SeqsUpTo(S, n) ==
    IF n = 0 THEN {<<>>}
    ELSE LET shorter == SeqsUpTo(S, n - 1)
         IN  shorter \cup {Append(s, e) : s \in {t \in shorter : Len(t) = n - 1}, e \in S}

\* the text of a file made of the given lines; the last line may lack its
\* terminator
FileTexts(ls, n) ==
    {join(os_linesep, body) \o tl :
        body \in SeqsUpTo(ls, n), tl \in {<<>>, os_linesep}}

\* pub_fn_line_indices, in increasing order
pub_fn_line_indices(ls) ==
    LET hit == {i \in 0..(Len(ls) - 1) : startswith(lstrip(At(ls, i)), PUB_FN)}
        RECURSIVE asc(_, _)
        asc(i, acc) == IF i >= Len(ls) THEN acc
                       ELSE asc(i + 1, IF i \in hit THEN Append(acc, i) ELSE acc)
    IN  asc(0, <<>>)

\* a failed re.match
NoMatch == <<>>

\* re.match(r'pub\s+fn\s+(\w+)\(', def_line): the 0-based span
\* <<start, end>> of group 1, or NoMatch
fn_name_match(def_line) ==
    IF ~startswith(def_line, <<"p", "u", "b">>) THEN NoMatch
    ELSE LET w1 == SpanLen(def_line, 3, WHITESPACE)
             p1 == 3 + w1
         IN  IF w1 = 0 \/ ~startswith(SliceFrom(def_line, p1), <<"f", "n">>) THEN NoMatch
             ELSE LET w2 == SpanLen(def_line, p1 + 2, WHITESPACE)
                      p2 == p1 + 2 + w2
                      w3 == SpanLen(def_line, p2, WORD)
                      p3 == p2 + w3
                  IN  IF w2 = 0 \/ w3 = 0 \/ p3 >= Len(def_line) THEN NoMatch
                      ELSE IF At(def_line, p3) # "(" THEN NoMatch
                      ELSE <<p2, p3>>

\* fn_name_match.group(1)
group1(def_line) ==
    LET m == fn_name_match(def_line) IN SubSeq(def_line, m[1] + 1, m[2])

\* range(idx - 1, 0, -1): the last index the docstring loop visits
DocRangeStop == 1

RECURSIVE docstring_collect(_, _)
\* docstring_lines as the loop over j = idx - 1, idx - 2, ... appends them
docstring_collect(ls, j) ==
    IF j < DocRangeStop THEN <<>>
    ELSE LET line == lstrip(At(ls, j))
         IN  IF ~startswith(line, DOC_MARK) THEN <<>>
             ELSE LET body == strip(lstrip_slash(line))
                      text == IF body = <<>> THEN os_linesep ELSE body
                  IN  <<text>> \o docstring_collect(ls, j - 1)

\* docstring of the declaration at line idx
docstring(ls, idx) == join(<<>>, reverse(docstring_collect(ls, idx - 1)))

Function(name, description) ==
    [name |-> name, description |-> description,
     arguments |-> <<>>, returns |-> None]

Module(fns) == [functions |-> fns]

AnalyzeStart ==
    /\ src_text \in FileTexts(SrcLine, MaxSrcLines)
    /\ lines = <<>>
    /\ pending = <<>>
    /\ functions = <<>>
    /\ warnings = <<>>
    /\ module = <<>>
    /\ apc = "open"

\* lines 165-171: read the file, set up the generator of declaration lines
AnalyzeOpen ==
    /\ apc = "open"
    /\ lines' = readlines(src_text)
    /\ pending' = pub_fn_line_indices(readlines(src_text))
    /\ apc' = "loop"
    /\ UNCHANGED <<src_text, functions, warnings, module>>
    /\ UNCHANGED <<svars, tvars, ovars>>

\* AnalyzeSpurious with `break` in place of `continue`
AnalyzeSpuriousBreak ==
    /\ apc = "loop"
    /\ pending # <<>>
    /\ fn_name_match(At(lines, Head(pending))) = NoMatch
    /\ warnings' = Append(warnings, At(lines, Head(pending)))
    /\ pending' = <<>>
    /\ UNCHANGED <<src_text, lines, functions, module, apc>>
    /\ UNCHANGED <<svars, tvars, ovars>>

\* lines 172-180: a declaration line the name pattern rejects
AnalyzeSpurious ==
    /\ apc = "loop"
    /\ pending # <<>>
    /\ fn_name_match(At(lines, Head(pending))) = NoMatch
    /\ warnings' = Append(warnings, At(lines, Head(pending)))
    /\ pending' = Tail(pending)
    /\ UNCHANGED <<src_text, lines, functions, module, apc>>
    /\ UNCHANGED <<svars, tvars, ovars>>

\* lines 172-207: an accepted declaration
AnalyzeAccept ==
    /\ apc = "loop"
    /\ pending # <<>>
    /\ fn_name_match(At(lines, Head(pending))) # NoMatch
    /\ functions' = Append(functions,
                           Function(group1(At(lines, Head(pending))),
                                    docstring(lines, Head(pending))))
    /\ pending' = Tail(pending)
    /\ UNCHANGED <<src_text, lines, warnings, module, apc>>
    /\ UNCHANGED <<svars, tvars, ovars>>

\* lines 210-217: the generator is exhausted, the Module is returned
AnalyzeReturn ==
    /\ apc = "loop"
    /\ pending = <<>>
    /\ module' = <<Module(functions)>>
    /\ apc' = "done"
    /\ UNCHANGED <<src_text, lines, pending, functions, warnings>>
    /\ UNCHANGED <<svars, tvars, ovars>>

\* no module file is being analyzed
AnalyzeIdle ==
    /\ src_text = <<>>
    /\ lines = <<>>
    /\ pending = <<>>
    /\ functions = <<>>
    /\ warnings = <<>>
    /\ module = <<>>
    /\ apc = "idle"

(***************************************************************************)
(* insert_api_docs: the splicer of rendered docs into a Markdown file.     *)
(***************************************************************************)
\* the `between` delimiters, one character each in this model
BEGIN_MARKER == <<"B">>

END_MARKER == <<"E">>

\* the lines a target file is made of in this model
MdLine ==
    { <<"B">>, <<"E">>, <<"x">>, <<" ", "x">>, <<"B", "E">> }

\* what module.render() returns in this model
Rendered == { <<"X">> }

\* line 84: docs
docs_of(mods) == join(os_linesep, mods)

\* line 88: target_lines
target_lines_of(text) ==
    LET raw == readlines(text) IN [i \in 1..Len(raw) |-> strip(raw[i])]

RECURSIVE marker_loop(_, _, _, _)
marker_loop(ls, marker, idx, found) ==
    IF idx >= Len(ls) THEN found
    ELSE marker_loop(ls, marker, idx + 1,
                     IF contains(At(ls, idx), marker) THEN idx ELSE found)

\* marker_scan with index 0 in place of None
marker_scan_zero(ls, marker) == marker_loop(ls, marker, 0, 0)

\* lines 92-97: the index the loop leaves in begin_idx (end_idx) for a marker
marker_scan(ls, marker) == marker_loop(ls, marker, 0, None)

\* lines 109-113: target_content
target_content(ls, b, e, docs) ==
    join(os_linesep,
         << strip(join(os_linesep, SliceTo(ls, b + 1))),
            docs,
            strip(join(os_linesep, SliceFrom(ls, e))) >>)

\* f.seek(0); f.write(content) on a file that holds old
seek0_write(old, content) ==
    content \o SliceFrom(old, IF Len(content) < Len(old) THEN Len(content) ELSE Len(old))

SpliceStart ==
    /\ file \in FileTexts(MdLine, MaxMdLines)
    /\ file_before = file
    /\ modules \in SeqsUpTo(Rendered, MaxModules)
    /\ begin_idx = None
    /\ end_idx = None
    /\ result = "none"
    /\ calls = 0

\* no file is being spliced
SpliceIdle ==
    /\ file = <<>>
    /\ file_before = <<>>
    /\ modules = <<>>
    /\ begin_idx = None
    /\ end_idx = None
    /\ result = "idle"
    /\ calls = 0

\* lines 81-82: nothing to render
InsertNoModules ==
    /\ result # "idle"
    /\ calls < MaxCalls
    /\ modules = <<>>
    /\ calls' = calls + 1
    /\ file_before' = file
    /\ result' = "return"
    /\ UNCHANGED <<file, modules, begin_idx, end_idx>>
    /\ UNCHANGED <<avars, tvars, ovars>>

\* lines 84-103: a marker is missing, or both are on one line
InsertRaise ==
    /\ result # "idle"
    /\ calls < MaxCalls
    /\ modules # <<>>
    /\ LET ls == target_lines_of(file)
           b == marker_scan(ls, BEGIN_MARKER)
           e == marker_scan(ls, END_MARKER)
       IN  /\ b = None \/ e = None \/ b = e
           /\ begin_idx' = b
           /\ end_idx' = e
    /\ calls' = calls + 1
    /\ file_before' = file
    /\ result' = "ValueError"
    /\ UNCHANGED <<file, modules>>
    /\ UNCHANGED <<avars, tvars, ovars>>

\* lines 84-116: the file is rewritten
InsertWrite ==
    /\ result # "idle"
    /\ calls < MaxCalls
    /\ modules # <<>>
    /\ LET ls == target_lines_of(file)
           b == marker_scan(ls, BEGIN_MARKER)
           e == marker_scan(ls, END_MARKER)
       IN  /\ ~(b = None \/ e = None \/ b = e)
           /\ begin_idx' = b
           /\ end_idx' = e
           /\ file' = seek0_write(file, target_content(ls, b, e, docs_of(modules)))
    /\ calls' = calls + 1
    /\ file_before' = file
    /\ result' = "written"
    /\ UNCHANGED modules
    /\ UNCHANGED <<avars, tvars, ovars>>

(***************************************************************************)
(* The cargo helper (tasks/util/__init__.py).                              *)
(***************************************************************************)
BIN == "rush"

LIB == "librush"

\* crate=None
NoCrate == ""

\* arguments a caller passes on, one of them with a space in it
ArgToken == {"--release", "--", "x y"}

\* shlex.quote: an argument with a character outside the safe set is put
\* in single quotes
quote(a) == IF a \in {"x y", ""} THEN "'" \o a \o "'" ELSE a

\* os.path.join('crates', crate, 'Cargo.toml')
manifest_path(crate) == "crates" \o "/" \o crate \o "/" \o "Cargo.toml"

\* cargo_args with the manifest selector after the positional arguments
cargo_args_manifest_last(cmd, args, crate) ==
    <<cmd>> \o args \o
        (IF crate # NoCrate THEN <<"--manifest-path", manifest_path(crate)>> ELSE <<>>)

\* lines 28-35: cargo_args
cargo_args(cmd, args, crate) ==
    <<cmd>> \o
        (IF crate # NoCrate THEN <<"--manifest-path", manifest_path(crate)>> ELSE <<>>)
        \o args

RECURSIVE str_join(_, _)
\* sep.join(parts) for strings
str_join(sep, parts) ==
    IF parts = <<>> THEN ""
    ELSE IF Len(parts) = 1 THEN parts[1]
    ELSE parts[1] \o sep \o str_join(sep, Tail(parts))

\* line 39: 'cargo ' + ' '.join(map(quote, cargo_args))
cargo_cmdline(cargo_argv) ==
    "cargo " \o str_join(" ", [i \in 1..Len(cargo_argv) |-> quote(cargo_argv[i])])

\* a command ctx.run was given, and the Result of its run
Command(prog, argv, cmdline, res) ==
    [prog |-> prog, argv |-> argv, cmdline |-> cmdline, result |-> res]

\* Invoke's Result of a run
Result(ok, return_code, stdout) ==
    [ok |-> ok, return_code |-> return_code, stdout |-> stdout]

\* the Results a run of a cargo command can have: ok is return_code = 0
CargoResults ==
    { Result(TRUE, 0, <<"u", "\n">>), Result(FALSE, 1, <<>>), Result(FALSE, 101, <<>>) }

\* lines 38-39: the helper in wait mode
CargoWait(cmd, args, crate, res) ==
    /\ ran' = Append(ran, Command("cargo", cargo_args(cmd, args, crate),
                                  cargo_cmdline(cargo_args(cmd, args, crate)), res))
    /\ cargo_ret' = <<res>>

\* lines 41-42: the helper in replace mode, os.execvp succeeding
CargoExec(cmd, args, crate) ==
    /\ exec_argv' = <<"cargo">> \o cargo_args(cmd, args, crate)
    /\ tpc' = "replaced"

\* a call of the helper with wait=True
CargoCallWait ==
    /\ task = "cargo"
    /\ tpc = "start"
    /\ call.wait
    /\ \E res \in CargoResults : CargoWait(call.cmd, call.args, call.crate, res)
    /\ tpc' = "done"
    /\ UNCHANGED <<task, flags, sys_argv, call, exec_argv, rustc_v, returned,
                   exit_status, error, readme, readme_before>>
    /\ UNCHANGED <<avars, svars, ovars>>

\* a call of the helper with wait=False
CargoCallExec ==
    /\ task = "cargo"
    /\ tpc = "start"
    /\ ~call.wait
    /\ CargoExec(call.cmd, call.args, call.crate)
    /\ UNCHANGED <<task, flags, sys_argv, call, ran, cargo_ret, rustc_v, returned,
                   exit_status, error, readme, readme_before>>
    /\ UNCHANGED <<avars, svars, ovars>>

(***************************************************************************)
(* run.bin (tasks/run.py).                                                 *)
(***************************************************************************)
\* line 19: sys.argv[2:]
argv_from_third(argv) == SliceFrom(argv, 2)

\* lines 14-19: cargo(ctx, 'run', *sys.argv[2:], crate=BIN, wait=False)
RunBin ==
    /\ task = "run.bin"
    /\ tpc = "start"
    /\ CargoExec("run", argv_from_third(sys_argv), BIN)
    /\ UNCHANGED <<task, flags, sys_argv, call, ran, cargo_ret, rustc_v, returned,
                   exit_status, error, readme, readme_before>>
    /\ UNCHANGED <<avars, svars, ovars>>

\* os.execvp finds no cargo executable and raises OSError
ExecFails ==
    /\ \/ task = "run.bin"
       \/ task = "cargo" /\ ~call.wait
    /\ tpc = "start"
    /\ error' = "OSError"
    /\ tpc' = "raised"
    /\ UNCHANGED <<task, flags, sys_argv, call, ran, exec_argv, cargo_ret, rustc_v,
                   returned, exit_status, readme, readme_before>>
    /\ UNCHANGED <<avars, svars, ovars>>

(***************************************************************************)
(* The build tasks (tasks/build.py).                                       *)
(***************************************************************************)
MIN_RUSTC_VERSION == <<1, 10, 0>>

\* the versions `rustc --version` reports in this model
RustcVersion == { <<1, 9, 0>>, <<1, 10, 0>>, <<0, 12, 5>>, <<2, 0, 0>> }

\* the Results of `rustc --version`: the output is "rustc <version> <rest>"
RustcResults ==
    {Result(TRUE, 0, <<"rustc", v, "(hash date)">>) : v \in RustcVersion}
        \cup {Result(FALSE, 127, <<>>)}

\* semver.match(version, '>=' + minimum)
semver_match_ge(version, minimum) ==
    \/ version[1] > minimum[1]
    \/ /\ version[1] = minimum[1]
       /\ \/ version[2] > minimum[2]
          \/ version[2] = minimum[2] /\ version[3] >= minimum[3]

\* ensure_rustc_status without the check of the version
ensure_rustc_status_any_version(rv) == IF ~rv.ok THEN 127 ELSE None

\* lines 173-184: the status ensure_rustc_version exits with, None if it
\* returns
ensure_rustc_status(rv) ==
    IF ~rv.ok THEN 127
    ELSE IF ~semver_match_ge(rv.stdout[2], MIN_RUSTC_VERSION) THEN 1
    ELSE None

\* lines 187-194: get_rustc_flags
get_rustc_flags(release, verbose) ==
    (IF release THEN <<"--release">> ELSE <<>>)
        \o (IF verbose THEN <<"--verbose">> ELSE <<>>)

USAGE_HEADING == <<"#", " ", "U", "s", "a", "g", "e">>

\* the lines README.md is made of in this model
ReadmeLine ==
    { USAGE_HEADING,                                        \* "# Usage"
      <<"#", " ", "T">>,                                    \* "# T"
      <<" ", "#", "S">>,                                    \* " #S"
      <<"t">>,                                              \* "t"
      <<"t", " ", "#", " ", "U", "s", "a", "g", "e">> }     \* "t # Usage"

ReadmeTexts ==
    {join(os_linesep, body) \o os_linesep : body \in SeqsUpTo(ReadmeLine, MaxReadmeLines)}

RECURSIVE heading_loop(_, _, _)
\* lines 61-69: <<begin_idx, end_idx>> after the loop has seen the lines
\* from index i on
heading_loop(ls, i, found) ==
    IF i >= Len(ls) THEN found
    ELSE IF ~startswith(At(ls, i), <<"#">>) THEN heading_loop(ls, i + 1, found)
    ELSE IF found[1] = None
         THEN heading_loop(ls, i + 1,
                           IF contains(At(ls, i), USAGE_HEADING)
                           THEN <<i, found[2]>> ELSE found)
         ELSE heading_loop(ls, i + 1, <<found[1], i>>)

\* lines 58-69: <<begin_idx, end_idx>> of the README
heading_scan(text) == heading_loop(target_lines_of(text), 0, <<None, None>>)

\* lines 77-81: readme_content
readme_content(ls, b, e, usage) ==
    join(os_linesep,
         << strip(join(os_linesep, SliceTo(ls, b + 1))),
            <<>>, usage, <<>>,
            strip(join(os_linesep, SliceFrom(ls, e))) >>)

\* the tasks that read README.md
ReadmeTasks == {"build.all", "build.bin"}

BuildTasks == {"build.all", "build.bin", "build.lib"}

TestTasks == {"test.all", "test.bin", "test.lib"}

CleanTasks == {"clean.all", "clean.bin", "clean.docs", "clean.lib"}

NoCall == [cmd |-> "", args |-> <<>>, crate |-> NoCrate, wait |-> TRUE]

NoFlags == [release |-> FALSE, verbose |-> FALSE]

TasksStart ==
    /\ task \in BuildTasks \cup TestTasks \cup CleanTasks \cup {"run.bin", "cargo"}
    /\ flags \in IF task \in BuildTasks
                 THEN [release : BOOLEAN, verbose : BOOLEAN]
                 ELSE IF task \in CleanTasks \ {"clean.docs"}
                 THEN [release : BOOLEAN, verbose : {FALSE}]
                 ELSE {NoFlags}
    /\ sys_argv \in IF task = "run.bin"
                    THEN {<<"inv", "run">> \o a : a \in SeqsUpTo(ArgToken, MaxArgs)}
                    ELSE {<<"inv", task>>}
    /\ call \in IF task = "cargo"
                THEN [cmd : {"build", "run"}, args : SeqsUpTo(ArgToken, MaxArgs),
                      crate : {NoCrate, BIN, LIB}, wait : BOOLEAN]
                ELSE {NoCall}
    /\ tpc = CASE task \in ReadmeTasks -> "bin.ensure"
               [] task = "build.lib" -> "lib.ensure"
               [] task \in {"test.all", "test.lib"} -> "test.lib"
               [] task = "test.bin" -> "test.bin"
               [] task \in {"clean.all", "clean.lib"} -> "clean.lib"
               [] task = "clean.bin" -> "clean.bin"
               [] task = "clean.docs" -> "clean.docs"
               [] OTHER -> "start"
    /\ ran = <<>>
    /\ exec_argv = <<>>
    /\ cargo_ret = <<>>
    /\ rustc_v = <<>>
    /\ returned = None
    /\ exit_status = None
    /\ error = "none"
    /\ readme \in IF task \in ReadmeTasks THEN ReadmeTexts ELSE {os_linesep}
    /\ readme_before = readme

\* no task is running
TasksIdle ==
    /\ task = "none"
    /\ flags = NoFlags
    /\ sys_argv = <<>>
    /\ call = NoCall
    /\ tpc = "idle"
    /\ ran = <<>>
    /\ exec_argv = <<>>
    /\ cargo_ret = <<>>
    /\ rustc_v = <<>>
    /\ returned = None
    /\ exit_status = None
    /\ error = "none"
    /\ readme = <<>>
    /\ readme_before = <<>>

\* lines 45, 91 and 171-184: ensure_rustc_version at the start of bin and lib
EnsureRustcVersion ==
    /\ tpc \in {"bin.ensure", "lib.ensure"}
    /\ \E rv \in RustcResults :
          /\ rustc_v' = <<rv>>
          /\ ran' = Append(ran, Command("rustc", <<"--version">>, "rustc --version", rv))
          /\ IF ensure_rustc_status(rv) # None
             THEN /\ exit_status' = ensure_rustc_status(rv)
                  /\ tpc' = "exited"
             ELSE /\ exit_status' = exit_status
                  /\ tpc' = IF tpc = "bin.ensure" THEN "bin.build" ELSE "lib.build"
    /\ UNCHANGED <<task, flags, sys_argv, call, exec_argv, cargo_ret, returned,
                   error, readme, readme_before>>
    /\ UNCHANGED <<avars, svars, ovars>>

\* lines 46-47: cargo build of the binary crate; its Result is dropped
BinCargoBuild ==
    /\ tpc = "bin.build"
    /\ \E res \in CargoResults :
          CargoWait("build", get_rustc_flags(flags.release, flags.verbose), BIN, res)
    /\ tpc' = "bin.run"
    /\ UNCHANGED <<task, flags, sys_argv, call, exec_argv, rustc_v, returned,
                   exit_status, error, readme, readme_before>>
    /\ UNCHANGED <<avars, svars, ovars>>

\* line 51: binary = cargo(ctx, 'run', crate=BIN, hide=True)
BinCargoRun ==
    /\ tpc = "bin.run"
    /\ \E res \in CargoResults : CargoWait("run", <<>>, BIN, res)
    /\ tpc' = "bin.check"
    /\ UNCHANGED <<task, flags, sys_argv, call, exec_argv, rustc_v, returned,
                   exit_status, error, readme, readme_before>>
    /\ UNCHANGED <<avars, svars, ovars>>

\* where control goes when bin returns: back into all, or out of the task
AfterBin == IF task = "build.all" THEN "all.docs" ELSE "done"

\* BinBinaryFailed without the return statement's value
BinBinaryFailedNoStatus ==
    /\ tpc = "bin.check"
    /\ ~cargo_ret[1].ok
    /\ returned' = None
    /\ tpc' = AfterBin
    /\ UNCHANGED <<task, flags, sys_argv, call, ran, exec_argv, cargo_ret, rustc_v,
                   exit_status, error, readme, readme_before>>
    /\ UNCHANGED <<avars, svars, ovars>>

\* lines 52-55: the binary's run failed
BinBinaryFailed ==
    /\ tpc = "bin.check"
    /\ ~cargo_ret[1].ok
    /\ returned' = cargo_ret[1].return_code
    /\ tpc' = AfterBin
    /\ UNCHANGED <<task, flags, sys_argv, call, ran, exec_argv, cargo_ret, rustc_v,
                   exit_status, error, readme, readme_before>>
    /\ UNCHANGED <<avars, svars, ovars>>

\* lines 56-74: a heading is missing in the README
BinHeadingsMissing ==
    /\ tpc = "bin.check"
    /\ cargo_ret[1].ok
    /\ heading_scan(readme)[1] = None \/ heading_scan(readme)[2] = None
    /\ returned' = 2
    /\ tpc' = AfterBin
    /\ UNCHANGED <<task, flags, sys_argv, call, ran, exec_argv, cargo_ret, rustc_v,
                   exit_status, error, readme, readme_before>>
    /\ UNCHANGED <<avars, svars, ovars>>

\* lines 56-85: the usage is put into the README
BinRewriteReadme ==
    /\ tpc = "bin.check"
    /\ cargo_ret[1].ok
    /\ heading_scan(readme)[1] # None /\ heading_scan(readme)[2] # None
    /\ readme' = readme_content(target_lines_of(readme), heading_scan(readme)[1],
                                heading_scan(readme)[2], strip(cargo_ret[1].stdout))
    /\ tpc' = AfterBin
    /\ UNCHANGED <<task, flags, sys_argv, call, ran, exec_argv, cargo_ret, rustc_v,
                   returned, exit_status, error, readme_before>>
    /\ UNCHANGED <<avars, svars, ovars>>

\* lines 92-93: cargo build of the library crate
LibCargoBuild ==
    /\ tpc = "lib.build"
    /\ \E res \in CargoResults :
          CargoWait("build", get_rustc_flags(flags.release, flags.verbose), LIB, res)
    /\ tpc' = "done"
    /\ UNCHANGED <<task, flags, sys_argv, call, exec_argv, rustc_v, returned,
                   exit_status, error, readme, readme_before>>
    /\ UNCHANGED <<avars, svars, ovars>>

\* line 38: docs(ctx, ...) in all; `docs` is the module tasks.util.docs that
\* line 21 imports (the task function is docs_), so the call raises TypeError
\* and line 39 is not reached
AllDocs ==
    /\ tpc = "all.docs"
    /\ error' = "TypeError"
    /\ tpc' = "raised"
    /\ UNCHANGED <<task, flags, sys_argv, call, ran, exec_argv, cargo_ret, rustc_v,
                   returned, exit_status, readme, readme_before>>
    /\ UNCHANGED <<avars, svars, ovars>>

(***************************************************************************)
(* The clean tasks (tasks/clean.py).                                       *)
(***************************************************************************)
\* the working directory of a clean task
CleanStart ==
    /\ mkdocs_yml \in IF task \in {"clean.all", "clean.docs"} THEN BOOLEAN ELSE {TRUE}
    /\ site_dir \in IF task \in {"clean.all", "clean.docs"} THEN BOOLEAN ELSE {FALSE}
    /\ log = <<>>

\* no clean task is running
CleanIdle ==
    /\ mkdocs_yml = TRUE
    /\ site_dir = FALSE
    /\ log = <<>>

\* lines 33 and 51: args
clean_args(release) == IF release THEN <<"--release">> ELSE <<>>

\* lines 48-52: lib, called first by all (line 24)
CleanLib ==
    /\ tpc = "clean.lib"
    /\ \E res \in CargoResults : CargoWait("clean", clean_args(flags.release), LIB, res)
    /\ tpc' = IF task = "clean.all" THEN "clean.bin" ELSE "done"
    /\ UNCHANGED <<task, flags, sys_argv, call, exec_argv, rustc_v, returned,
                   exit_status, error, readme, readme_before>>
    /\ UNCHANGED <<avars, svars, ovars>>

\* lines 30-34: bin, called second by all (line 25)
CleanBin ==
    /\ tpc = "clean.bin"
    /\ \E res \in CargoResults : CargoWait("clean", clean_args(flags.release), BIN, res)
    /\ tpc' = IF task = "clean.all" THEN "clean.docs" ELSE "done"
    /\ UNCHANGED <<task, flags, sys_argv, call, exec_argv, rustc_v, returned,
                   exit_status, error, readme, readme_before>>
    /\ UNCHANGED <<avars, svars, ovars>>

\* where control goes when docs returns: back into all, or out of the task
AfterCleanDocs == IF task = "clean.all" THEN "clean.all.end" ELSE "done"

\* line 40 and get_docs_output_dir (tasks/util/docs.py lines 24-27):
\* mkdocs.yml is missing
CleanDocsNoConfig ==
    /\ tpc = "clean.docs"
    /\ ~mkdocs_yml
    /\ log' = Append(log, "error: mkdocs.yaml config file cannot be found")
    /\ exit_status' = 1
    /\ tpc' = "exited"
    /\ UNCHANGED <<task, flags, sys_argv, call, ran, exec_argv, cargo_ret, rustc_v,
                   returned, error, readme, readme_before>>
    /\ UNCHANGED <<mkdocs_yml, site_dir>>
    /\ UNCHANGED <<avars, svars, dvars>>

\* lines 40-41: there is no output directory
CleanDocsNoDir ==
    /\ tpc = "clean.docs"
    /\ mkdocs_yml
    /\ ~site_dir
    /\ tpc' = AfterCleanDocs
    /\ UNCHANGED <<task, flags, sys_argv, call, ran, exec_argv, cargo_ret, rustc_v,
                   returned, exit_status, error, readme, readme_before>>
    /\ UNCHANGED <<avars, svars, ovars>>

\* lines 40-43: shutil.rmtree removes the output directory
CleanDocsRemoved ==
    /\ tpc = "clean.docs"
    /\ mkdocs_yml
    /\ site_dir
    /\ site_dir' = FALSE
    /\ tpc' = AfterCleanDocs
    /\ UNCHANGED <<task, flags, sys_argv, call, ran, exec_argv, cargo_ret, rustc_v,
                   returned, exit_status, error, readme, readme_before>>
    /\ UNCHANGED <<mkdocs_yml, log>>
    /\ UNCHANGED <<avars, svars, dvars>>

\* CleanDocsRmtreeFails without the except clause
CleanDocsRmtreeRaises ==
    /\ tpc = "clean.docs"
    /\ mkdocs_yml
    /\ site_dir
    /\ error' = "OSError"
    /\ tpc' = "raised"
    /\ UNCHANGED <<task, flags, sys_argv, call, ran, exec_argv, cargo_ret, rustc_v,
                   returned, exit_status, readme, readme_before>>
    /\ UNCHANGED <<avars, svars, ovars>>

\* lines 40-45: shutil.rmtree raises OSError or shutil.Error, which is
\* caught and logged
CleanDocsRmtreeFails ==
    /\ tpc = "clean.docs"
    /\ mkdocs_yml
    /\ site_dir
    /\ log' = Append(log, "warning: Error while cleaning docs' output dir")
    /\ tpc' = AfterCleanDocs
    /\ UNCHANGED <<task, flags, sys_argv, call, ran, exec_argv, cargo_ret, rustc_v,
                   returned, exit_status, error, readme, readme_before>>
    /\ UNCHANGED <<mkdocs_yml, site_dir>>
    /\ UNCHANGED <<avars, svars, dvars>>

\* line 27: print("\nAll cleaned.")
CleanAllEnd ==
    /\ tpc = "clean.all.end"
    /\ log' = Append(log, "All cleaned.")
    /\ tpc' = "done"
    /\ UNCHANGED <<task, flags, sys_argv, call, ran, exec_argv, cargo_ret, rustc_v,
                   returned, exit_status, error, readme, readme_before>>
    /\ UNCHANGED <<mkdocs_yml, site_dir>>
    /\ UNCHANGED <<avars, svars, dvars>>

\* run.docs is not running
RunDocsIdle ==
    /\ docs_args = [port |-> "", reload |-> FALSE, verbose |-> FALSE]
    /\ opc = "idle"
    /\ build_error_event = FALSE
    /\ wait_ret = "none"
    /\ tabs = <<>>

(***************************************************************************)
(* run.docs (tasks/run.py lines 22-59): the main flow runs `mkdocs serve`  *)
(* while opener_thread runs open_browser.                                  *)
(***************************************************************************)
\* the values given for the port parameter (8000 is its default, line 27)
Ports == {"8000", "8080", "9000"}

\* line 33: addr
addr(port) == "127.0.0.1:" \o port

\* line 47: the url given to open_browser
docs_url(port) == "http://" \o addr(port)

\* lines 52-56: the command line of the server
serve_cmdline(a) ==
    "mkdocs serve --dev-addr " \o addr(a.port) \o " --"
        \o (IF a.reload THEN "" ELSE "no-") \o "livereload "
        \o (IF a.verbose THEN "--verbose" ELSE "")

\* the words of that command line
serve_argv(a) ==
    <<"serve", "--dev-addr", addr(a.port),
      "--" \o (IF a.reload THEN "" ELSE "no-") \o "livereload">>
        \o (IF a.verbose THEN <<"--verbose">> ELSE <<>>)

\* what ctx.run can return when the server ends
ServeResults == {Result(TRUE, 0, ""), Result(FALSE, 1, "")}

\* lines 27-35: the task is called; build_error_event is clear
RunDocsStart ==
    /\ task = "run.docs"
    /\ flags = NoFlags
    /\ sys_argv = <<"inv", "run.docs">>
    /\ call = NoCall
    /\ tpc = "docs.start"
    /\ ran = <<>>
    /\ exec_argv = <<>>
    /\ cargo_ret = <<>>
    /\ rustc_v = <<>>
    /\ returned = None
    /\ exit_status = None
    /\ error = "none"
    /\ readme = <<>>
    /\ readme_before = <<>>
    /\ docs_args \in [port : Ports, reload : BOOLEAN, verbose : BOOLEAN]
    /\ opc = "unstarted"
    /\ build_error_event = FALSE
    /\ wait_ret = "none"
    /\ tabs = <<>>

\* lines 46-48: opener_thread.start()
DocsStartThread ==
    /\ tpc = "docs.start"
    /\ opc' = "wait"
    /\ tpc' = "docs.serve"
    /\ UNCHANGED <<task, flags, sys_argv, call, ran, exec_argv, cargo_ret, rustc_v,
                   returned, exit_status, error, readme, readme_before>>
    /\ UNCHANGED <<docs_args, build_error_event, wait_ret, tabs>>
    /\ UNCHANGED <<avars, svars, cvars>>

\* lines 52-57: the server ends and ctx.run returns its result
DocsServeReturns ==
    /\ tpc = "docs.serve"
    /\ \E res \in ServeResults :
          /\ ran' = Append(ran, Command("mkdocs", serve_argv(docs_args),
                                        serve_cmdline(docs_args), res))
          /\ tpc' = IF res.ok THEN "done" ELSE "docs.set"
    /\ UNCHANGED <<task, flags, sys_argv, call, exec_argv, cargo_ret, rustc_v,
                   returned, exit_status, error, readme, readme_before>>
    /\ UNCHANGED <<avars, svars, ovars>>

\* line 58: build_error_event.set()
DocsSetEvent ==
    /\ tpc = "docs.set"
    /\ build_error_event' = TRUE
    /\ tpc' = "docs.join"
    /\ UNCHANGED <<task, flags, sys_argv, call, ran, exec_argv, cargo_ret, rustc_v,
                   returned, exit_status, error, readme, readme_before>>
    /\ UNCHANGED <<docs_args, opc, wait_ret, tabs>>
    /\ UNCHANGED <<avars, svars, cvars>>

\* line 59: opener_thread.join() returns once the thread has ended
DocsJoin ==
    /\ tpc = "docs.join"
    /\ opc = "done"
    /\ tpc' = "done"
    /\ UNCHANGED <<task, flags, sys_argv, call, ran, exec_argv, cargo_ret, rustc_v,
                   returned, exit_status, error, readme, readme_before>>
    /\ UNCHANGED <<avars, svars, ovars>>

\* line 42: build_error_event.wait(timeout=2.0) returns because the flag is set
OpenerWaitSignalled ==
    /\ opc = "wait"
    /\ build_error_event
    /\ wait_ret' = "set"
    /\ opc' = "check"
    /\ UNCHANGED <<docs_args, build_error_event, tabs>>
    /\ UNCHANGED <<avars, svars, tvars, cvars>>

\* OpenerWaitTimeout for a wait() that has no timeout
OpenerWaitNoTimeout ==
    /\ opc = "wait"
    /\ build_error_event
    /\ wait_ret' = "timeout"
    /\ opc' = "check"
    /\ UNCHANGED <<docs_args, build_error_event, tabs>>
    /\ UNCHANGED <<avars, svars, tvars, cvars>>

\* line 42: the two seconds pass with the flag clear
OpenerWaitTimeout ==
    /\ opc = "wait"
    /\ ~build_error_event
    /\ wait_ret' = "timeout"
    /\ opc' = "check"
    /\ UNCHANGED <<docs_args, build_error_event, tabs>>
    /\ UNCHANGED <<avars, svars, tvars, cvars>>

\* OpenerCheck without the test of line 43
OpenerCheckNoTest ==
    /\ opc = "check"
    /\ opc' = "open"
    /\ UNCHANGED <<docs_args, build_error_event, wait_ret, tabs>>
    /\ UNCHANGED <<avars, svars, tvars, cvars>>

\* line 43: if not build_error_event.is_set()
OpenerCheck ==
    /\ opc = "check"
    /\ opc' = IF build_error_event THEN "done" ELSE "open"
    /\ UNCHANGED <<docs_args, build_error_event, wait_ret, tabs>>
    /\ UNCHANGED <<avars, svars, tvars, cvars>>

\* line 44: webbrowser.open_new_tab(url), after which open_browser returns
OpenerOpen ==
    /\ opc = "open"
    /\ tabs' = Append(tabs, docs_url(docs_args.port))
    /\ opc' = "done"
    /\ UNCHANGED <<docs_args, build_error_event, wait_ret>>
    /\ UNCHANGED <<avars, svars, tvars, cvars>>

\* the steps of opener_thread
OpenerNext == OpenerWaitSignalled \/ OpenerWaitTimeout \/ OpenerCheck \/ OpenerOpen

AInit == AnalyzeStart /\ SpliceIdle /\ TasksIdle /\ CleanIdle /\ RunDocsIdle

ANext == AnalyzeOpen \/ AnalyzeSpurious \/ AnalyzeAccept \/ AnalyzeReturn

SpecScrape == AInit /\ [][ANext]_vars

SInit == AnalyzeIdle /\ SpliceStart /\ TasksIdle /\ CleanIdle /\ RunDocsIdle

SNext == InsertNoModules \/ InsertRaise \/ InsertWrite

SpecSplice == SInit /\ [][SNext]_vars

(***************************************************************************)
(* The test tasks (tasks/test.py).                                         *)
(***************************************************************************)
\* lines 24-28: lib returns the return code of cargo test on the library
\* crate; called from all (line 13), the value is dropped
TestLib ==
    /\ tpc = "test.lib"
    /\ \E res \in CargoResults :
          /\ CargoWait("test", <<"--no-fail-fast">>, LIB, res)
          /\ returned' = res.return_code
    /\ tpc' = IF task = "test.all" THEN "test.bin" ELSE "done"
    /\ UNCHANGED <<task, flags, sys_argv, call, exec_argv, rustc_v,
                   exit_status, error, readme, readme_before>>
    /\ UNCHANGED <<avars, svars, ovars>>

\* lines 17-21: bin returns the return code of cargo test on the binary
\* crate; called from all (line 14), the value is dropped
TestBin ==
    /\ tpc = "test.bin"
    /\ \E res \in CargoResults :
          /\ CargoWait("test", <<"--no-fail-fast">>, BIN, res)
          /\ returned' = res.return_code
    /\ tpc' = IF task = "test.all" THEN "test.all.end" ELSE "done"
    /\ UNCHANGED <<task, flags, sys_argv, call, exec_argv, rustc_v,
                   exit_status, error, readme, readme_before>>
    /\ UNCHANGED <<avars, svars, ovars>>

\* lines 10-14: all ends without a return statement, so it returns None
TestAllEnd ==
    /\ tpc = "test.all.end"
    /\ returned' = None
    /\ tpc' = "done"
    /\ UNCHANGED <<task, flags, sys_argv, call, ran, exec_argv, cargo_ret, rustc_v,
                   exit_status, error, readme, readme_before>>
    /\ UNCHANGED <<avars, svars, ovars>>

TInit == AnalyzeIdle /\ SpliceIdle /\ TasksStart /\ CleanStart /\ RunDocsIdle

TNext ==
    \/ CargoCallWait \/ CargoCallExec
    \/ RunBin \/ ExecFails
    \/ EnsureRustcVersion
    \/ BinCargoBuild \/ BinCargoRun
    \/ BinBinaryFailed \/ BinHeadingsMissing \/ BinRewriteReadme
    \/ LibCargoBuild
    \/ AllDocs
    \/ TestLib \/ TestBin \/ TestAllEnd
    \/ CleanLib \/ CleanBin
    \/ CleanDocsNoConfig \/ CleanDocsNoDir \/ CleanDocsRemoved \/ CleanDocsRmtreeFails
    \/ CleanAllEnd

SpecTasks == TInit /\ [][TNext]_vars

(***************************************************************************)
(* Specification of run.docs.  In SpecRunDocsFair every thread that can    *)
(* take a step takes one: the wait of line 42 is bounded by its timeout    *)
(* and the interpreter schedules both threads.  The server gets no         *)
(* fairness: `mkdocs serve` may run for ever.                              *)
(***************************************************************************)
DInit == AnalyzeIdle /\ SpliceIdle /\ CleanIdle /\ RunDocsStart

DNext ==
    \/ DocsStartThread \/ DocsServeReturns \/ DocsSetEvent \/ DocsJoin
    \/ OpenerWaitSignalled \/ OpenerWaitTimeout \/ OpenerCheck \/ OpenerOpen

SpecRunDocs == DInit /\ [][DNext]_vars

SpecRunDocsFair ==
    /\ DInit
    /\ [][DNext]_vars
    /\ WF_vars(DocsStartThread)
    /\ WF_vars(DocsSetEvent)
    /\ WF_vars(DocsJoin)
    /\ WF_vars(OpenerNext)

(***************************************************************************)
(* Properties of analyze_rust_module.                                      *)
(***************************************************************************)
\* the line passes the `pub fn` prefix test
IsDeclLine(line) == startswith(lstrip(line), PUB_FN)

\* the line passes the prefix test and the full name pattern
IsAcceptedLine(line) == IsDeclLine(line) /\ fn_name_match(line) # NoMatch

IsDocLine(line) == startswith(lstrip(line), DOC_MARK)

RECURSIVE Ascending(_)
\* the members of a set of indices, in increasing order
Ascending(S) ==
    IF S = {} THEN <<>>
    ELSE LET m == CHOOSE x \in S : \A y \in S : x <= y
         IN  <<m>> \o Ascending(S \ {m})

IsSpuriousLine(line) == IsDeclLine(line) /\ fn_name_match(line) = NoMatch

AcceptedIdx(ls) ==
    Ascending({i \in 0..(Len(ls) - 1) : IsAcceptedLine(At(ls, i))})

SpuriousIdx(ls) ==
    Ascending({i \in 0..(Len(ls) - 1) : IsSpuriousLine(At(ls, i))})

\* the length of the maximal run of `///` lines that ends right above idx
DocRun(ls, idx) ==
    LET runs == {n \in 0..idx : \A k \in (idx - n)..(idx - 1) : IsDocLine(At(ls, k))}
    IN  CHOOSE n \in runs : \A m \in runs : m <= n

\* a `///` line with its comment marker stripped
MarkerStripped(line) ==
    LET body == strip(lstrip_slash(lstrip(line)))
    IN  IF body = <<>> THEN os_linesep ELSE body

\* the lines idx - n .. idx - 1, markers stripped, in source order
RECURSIVE RunText(_, _, _)
RunText(ls, idx, n) ==
    IF n = 0 THEN <<>>
    ELSE MarkerStripped(At(ls, idx - n)) \o RunText(ls, idx, n - 1)

\* C1: the description of every accepted declaration, wherever it stands in
\* the file (the first comment line of the file included), is the maximal
\* run of `///` lines right above it, in source order, markers stripped;
\* it is empty when the line above is no `///` line.
C1_DescriptionIsDocRun ==
    \A k \in 1..Len(functions) :
        k <= Len(AcceptedIdx(lines)) =>
            functions[k].description =
                RunText(lines, AcceptedIdx(lines)[k],
                        DocRun(lines, AcceptedIdx(lines)[k]))

\* C6: lines that pass the prefix test but not the name pattern are logged
\* and skipped, and the loop goes on: the functions are the accepted
\* declarations, one each, in file order, and so are the functions of the
\* returned Module.
C6_SpuriousSkipped ==
    /\ Len(functions) <= Len(AcceptedIdx(lines))
    /\ \A k \in 1..Len(functions) :
           functions[k].name = group1(At(lines, AcceptedIdx(lines)[k]))
    /\ Len(warnings) <= Len(SpuriousIdx(lines))
    /\ \A k \in 1..Len(warnings) : warnings[k] = At(lines, SpuriousIdx(lines)[k])
    /\ apc = "done" =>
           /\ Len(module[1].functions) = Len(AcceptedIdx(lines))
           /\ module[1].functions = functions
           /\ Len(warnings) = Len(SpuriousIdx(lines))

\* a file whose first declaration is spurious and whose later one is accepted
C6_Witness ==
    /\ apc = "done"
    /\ SpuriousIdx(lines) # <<>>
    /\ AcceptedIdx(lines) # <<>>
    /\ SpuriousIdx(lines)[1] < AcceptedIdx(lines)[Len(AcceptedIdx(lines))]
    /\ Len(module[1].functions) >= 1

\* C1 away from the top of the file: the run of `///` lines stops below line 0
C1_HoldsBelowFirstLine ==
    \A k \in 1..Len(functions) :
        LET idx == AcceptedIdx(lines)[k]
        IN  DocRun(lines, idx) < idx =>
                functions[k].description = RunText(lines, idx, DocRun(lines, idx))

(***************************************************************************)
(* Properties of insert_api_docs.                                          *)
(***************************************************************************)
\* the lines of a text without their line terminators
RawLines(text) ==
    LET raw == readlines(text)
    IN  [i \in 1..Len(raw) |->
            IF raw[i] # <<>> /\ raw[i][Len(raw[i])] = "\n"
            THEN SliceTo(raw[i], Len(raw[i]) - 1) ELSE raw[i]]

\* the 0-based indices of the lines of a text that contain the marker
LinesWith(text, marker) ==
    {i \in 0..(Len(RawLines(text)) - 1) : contains(At(RawLines(text), i), marker)}

Max(S) == CHOOSE x \in S : \A y \in S : y <= x

Min(S) == CHOOSE x \in S : \A y \in S : x <= y

\* the file lacks a marker, or the lines the markers resolve to are one line
MarkersUnusable(text) ==
    \/ LinesWith(text, BEGIN_MARKER) = {}
    \/ LinesWith(text, END_MARKER) = {}
    \/ Max(LinesWith(text, BEGIN_MARKER)) = Max(LinesWith(text, END_MARKER))

\* C2: with modules to render, a target file that lacks the begin marker or
\* the end marker, or whose markers resolve to one line, makes
\* insert_api_docs raise ValueError and keeps its content.
C2_BadMarkersRaiseAndKeepFile ==
    (calls >= 1 /\ modules # <<>> /\ MarkersUnusable(file_before)) =>
        (result = "ValueError" /\ file = file_before)

\* a call that raised on a file with an end marker and no begin marker
C2_Witness ==
    /\ calls >= 1
    /\ modules # <<>>
    /\ LinesWith(file_before, BEGIN_MARKER) = {}
    /\ LinesWith(file_before, END_MARKER) # {}
    /\ result = "ValueError"
    /\ file = file_before

\* C3: after a successful call the whole content of the file is the lines up
\* to the begin-marker line, the joined rendered blocks and the lines from
\* the end-marker line on, and nothing of the old content is left after it.
C3_FileIsExactlyTheNewContent ==
    result = "written" =>
        file = target_content(target_lines_of(file_before), begin_idx, end_idx,
                              docs_of(modules))

\* what does hold after a successful call: the file begins with the new content
C3_FileBeginsWithTheNewContent ==
    result = "written" =>
        LET content == target_content(target_lines_of(file_before), begin_idx,
                                      end_idx, docs_of(modules))
        IN  Len(file) >= Len(content) /\ SliceTo(file, Len(content)) = content

\* the lines part occur, in a row, somewhere in the lines whole
OccursIn(part, whole) ==
    \E p \in 0..(Len(whole) - Len(part)) :
        SubSeq(whole, p + 1, p + Len(part)) = part

\* C4: a successful call keeps every line up to and including the
\* begin-marker line and every line from the end-marker line on with the
\* same characters, leading and trailing whitespace and blank lines included.
C4_OutsideRegionKept ==
    result = "written" =>
        LET old == RawLines(file_before)
            new == RawLines(file)
        IN  /\ Len(new) >= begin_idx + 1
            /\ SliceTo(new, begin_idx + 1) = SliceTo(old, begin_idx + 1)
            /\ OccursIn(SliceFrom(old, end_idx), SliceFrom(new, begin_idx + 1))

\* no line of the text has whitespace at either end, and none is blank
Unpadded(text) ==
    \A i \in 1..Len(RawLines(text)) :
        RawLines(text)[i] # <<>> /\ strip(RawLines(text)[i]) = RawLines(text)[i]

\* what does hold: the lines outside the region are kept when none is padded
C4_UnpaddedOutsideRegionKept ==
    (result = "written" /\ Unpadded(file_before)) =>
        LET old == RawLines(file_before)
            new == RawLines(file)
        IN  /\ Len(new) >= begin_idx + 1
            /\ SliceTo(new, begin_idx + 1) = SliceTo(old, begin_idx + 1)
            /\ OccursIn(SliceFrom(old, end_idx), SliceFrom(new, begin_idx + 1))

\* C5: the region runs from the first line that contains the begin marker
\* to the first line after it that contains the end marker, so a splice
\* that proceeds has end_idx > begin_idx.
C5_FirstBeginThenFirstEndAfter ==
    result = "written" =>
        /\ begin_idx = Min(LinesWith(file_before, BEGIN_MARKER))
        /\ end_idx > begin_idx
        /\ end_idx = Min({i \in LinesWith(file_before, END_MARKER) : i > begin_idx})

\* what does hold: each index is the last line that contains its marker
C5_LastLineOfEachMarker ==
    result = "written" =>
        /\ begin_idx = Max(LinesWith(file_before, BEGIN_MARKER))
        /\ end_idx = Max(LinesWith(file_before, END_MARKER))

(***************************************************************************)
(* Properties of the cargo helper and of the run and build tasks.          *)
(***************************************************************************)
\* the argument vector the helper is to build
ExpectedCargoArgs(cmd, args, crate) ==
    IF crate = NoCrate THEN <<cmd>> \o args
    ELSE <<cmd, "--manifest-path", "crates/" \o crate \o "/Cargo.toml">> \o args

\* the command-line arguments of the process from the third one on
ForwardedArgs == [i \in 1..(Len(sys_argv) - 2) |-> sys_argv[i + 2]]

\* C7: the helper's vector is cmd, then --manifest-path and the crate's
\* Cargo.toml exactly when a crate is given, then args in order; in wait mode
\* it is run and the run's Result is returned; in replace mode the process
\* becomes cargo with that vector, for run.bin with the process's arguments
\* from the third on, and nothing of the task runs after the replacement.
C7_CargoVector ==
    /\ (task = "cargo" /\ tpc = "done") =>
           /\ Len(ran) = 1
           /\ ran[1].prog = "cargo"
           /\ ran[1].argv = ExpectedCargoArgs(call.cmd, call.args, call.crate)
           /\ cargo_ret = <<ran[1].result>>
           /\ exec_argv = <<>>
    /\ (task = "cargo" /\ tpc = "replaced") =>
           /\ exec_argv = <<"cargo">> \o ExpectedCargoArgs(call.cmd, call.args, call.crate)
           /\ ran = <<>>
           /\ cargo_ret = <<>>
    /\ (task = "run.bin" /\ tpc = "replaced") =>
           /\ exec_argv = <<"cargo">> \o ExpectedCargoArgs("run", ForwardedArgs, BIN)
           /\ ran = <<>>
           /\ cargo_ret = <<>>
           /\ error = "none"
    /\ tpc = "replaced" => ~ENABLED TNext

\* run.bin has replaced the process, forwarding two arguments
C7_Witness ==
    /\ task = "run.bin"
    /\ tpc = "replaced"
    /\ Len(sys_argv) = 4
    /\ sys_argv[3] # sys_argv[4]
    /\ Len(exec_argv) = 6

\* the reported version is below the minimum 1.10.0
BelowMinimum(version) ==
    version[1] * 10000 + version[2] * 100 + version[3] < 1 * 10000 + 10 * 100 + 0

\* the build stopped right after the compiler check
StoppedAtCheck(status) ==
    /\ tpc = "exited"
    /\ exit_status = status
    /\ Len(ran) = 1
    /\ cargo_ret = <<>>
    /\ readme = readme_before
    /\ returned = None
    /\ error = "none"
    /\ ~ENABLED TNext

\* C8: build.bin and build.lib (and build.all through bin) check the
\* compiler before any cargo command: a failed `rustc --version` exits with
\* 127, a version below 1.10.0 exits with 1, and then no cargo command is
\* run, the README is untouched and no later step is taken.
C8_CompilerCheckFirst ==
    task \in BuildTasks =>
        /\ ran # <<>> => (ran[1].prog = "rustc" /\ rustc_v = <<ran[1].result>>)
        /\ ran = <<>> => rustc_v = <<>>
        /\ \A k \in 1..Len(ran) :
               ran[k].prog = "cargo" =>
                   (k > 1 /\ rustc_v[1].ok /\ ~BelowMinimum(rustc_v[1].stdout[2]))
        /\ (rustc_v # <<>> /\ ~rustc_v[1].ok) => StoppedAtCheck(127)
        /\ (rustc_v # <<>> /\ rustc_v[1].ok /\ BelowMinimum(rustc_v[1].stdout[2])) =>
               StoppedAtCheck(1)

\* build.all has stopped with status 1 on rustc 1.9.0
C8_Witness ==
    /\ task = "build.all"
    /\ rustc_v # <<>>
    /\ rustc_v[1].ok
    /\ rustc_v[1].stdout[2] = <<1, 9, 0>>
    /\ tpc = "exited"
    /\ exit_status = 1

\* bin has returned
BinDone == task \in ReadmeTasks /\ tpc \in {"done", "all.docs", "raised"}

\* the 0-based indices of the heading lines of a text
Headings(text) ==
    {i \in 0..(Len(RawLines(text)) - 1) : startswith(strip(At(RawLines(text), i)), <<"#">>)}

\* those of them that contain "# Usage"
UsageHeadings(text) ==
    {i \in Headings(text) : contains(At(RawLines(text), i), USAGE_HEADING)}

\* the headings after the first Usage heading
HeadingsAfterUsage(text) ==
    {i \in Headings(text) : i > Min(UsageHeadings(text))}

\* the Usage heading, or a heading after it, is not in the text
HeadingsNotFound(text) ==
    UsageHeadings(text) = {} \/ HeadingsAfterUsage(text) = {}

\* C9: the region the usage replaces starts after the first heading that
\* contains "# Usage" and ends at the first heading after it: the lines from
\* that heading on are kept in the rewritten README.
C9_RegionEndsAtFirstHeadingAfter ==
    (BinDone /\ returned = None) =>
        readme = readme_content(target_lines_of(readme_before),
                                Min(UsageHeadings(readme_before)),
                                Min(HeadingsAfterUsage(readme_before)),
                                strip(cargo_ret[1].stdout))

\* what does hold: the region ends at the last heading after the Usage heading
C9_RegionEndsAtLastHeading ==
    (BinDone /\ returned = None) =>
        readme = readme_content(target_lines_of(readme_before),
                                Min(UsageHeadings(readme_before)),
                                Max(HeadingsAfterUsage(readme_before)),
                                strip(cargo_ret[1].stdout))

\* C10: build.bin returns the binary's non-zero return code when the
\* binary's run failed, and 2 when the Usage heading or a heading after it
\* is not in the README; in both cases README.md is as it was.
C10_FailuresKeepReadme ==
    BinDone =>
        /\ ~cargo_ret[1].ok =>
               /\ returned = cargo_ret[1].return_code
               /\ returned # 0
               /\ readme = readme_before
        /\ (cargo_ret[1].ok /\ HeadingsNotFound(readme_before)) =>
               /\ returned = 2
               /\ readme = readme_before

\* bin has returned 2 on a README with a Usage heading and no heading after it
C10_Witness ==
    /\ BinDone
    /\ cargo_ret[1].ok
    /\ UsageHeadings(readme_before) # {}
    /\ HeadingsNotFound(readme_before)
    /\ returned = 2
    /\ readme = readme_before

(***************************************************************************)
(* Properties of the test tasks and of build.all.                          *)
(***************************************************************************)
\* the non-zero return codes of the cargo test runs made so far
FailedTestCodes ==
    {ran[k].result.return_code : k \in {i \in 1..Len(ran) : ran[i].result.return_code # 0}}

\* C11: a task's status is the wrapped tool's: test.all ends with the
\* non-zero status of a failed cargo test run of test.lib or test.bin, and
\* build.all, when build.bin returned a non-zero status, does not end
\* normally and does not report "Build finished".
C11_StatusPropagates ==
    /\ (task = "test.all" /\ tpc = "done" /\ FailedTestCodes # {}) =>
           returned \in FailedTestCodes
    /\ (task = "build.all" /\ BinDone /\ returned \notin {None, 0}) =>
           tpc \in {"all.docs", "raised"}

\* what does hold: test.lib and test.bin, invoked on their own, return the
\* return code of their cargo test run, and test.all returns None
C11_OnlySingleTestTasksReturnCode ==
    /\ (task \in {"test.lib", "test.bin"} /\ tpc = "done") =>
           (Len(ran) = 1 /\ returned = ran[1].result.return_code)
    /\ (task = "test.all" /\ tpc = "done") => (Len(ran) = 2 /\ returned = None)

(***************************************************************************)
(* Idempotence of insert_api_docs.                                         *)
(***************************************************************************)
\* C14: once a call has succeeded, a second call with the same modules and
\* markers succeeds too and leaves the file as the first call left it.
C14_SpliceIdempotent ==
    [][result = "written" => (result' = "written" /\ file' = file)]_vars

\* the markers of the text are in order: the last line with the end marker
\* comes after the last line with the begin marker
MarkersInOrder(text) ==
    /\ LinesWith(text, BEGIN_MARKER) # {}
    /\ LinesWith(text, END_MARKER) # {}
    /\ Max(LinesWith(text, BEGIN_MARKER)) < Max(LinesWith(text, END_MARKER))

\* what does hold: the second call succeeds, and it keeps the file when the
\* markers of the file were in order before the first call
C14_IdempotentWhenMarkersInOrder ==
    [][result = "written" =>
          /\ result' = "written"
          /\ MarkersInOrder(file_before) => file' = file]_vars

(***************************************************************************)
(* Properties of the clean tasks.                                          *)
(***************************************************************************)
RMTREE_WARNING == "warning: Error while cleaning docs' output dir"

\* the sequence s has the member x
Has(s, x) == \E k \in 1..Len(s) : s[k] = x

\* the cargo clean command of a crate
IsCleanOf(cmd, crate) ==
    /\ cmd.prog = "cargo"
    /\ cmd.argv[1] = "clean"
    /\ cmd.argv[3] = "crates/" \o crate \o "/Cargo.toml"

\* C13: clean.all cleans the library, then the binary, then the docs; a
\* failure to delete the docs output directory is only logged as a warning:
\* the docs step and clean.all end normally, "All cleaned." is printed and
\* there is no error status.
C13_CleanOrderAndRmtreeWarning ==
    task = "clean.all" =>
        /\ tpc = "clean.lib" => (ran = <<>> /\ log = <<>>)
        /\ tpc = "clean.bin" => (Len(ran) = 1 /\ IsCleanOf(ran[1], LIB) /\ log = <<>>)
        /\ tpc \notin {"clean.lib", "clean.bin"} =>
               (Len(ran) = 2 /\ IsCleanOf(ran[1], LIB) /\ IsCleanOf(ran[2], BIN))
        /\ error = "none"
        /\ exit_status # None => ~mkdocs_yml
        /\ Has(log, RMTREE_WARNING) =>
               /\ site_dir
               /\ exit_status = None
               /\ error = "none"
               /\ tpc \in {"clean.all.end", "done"}
               /\ tpc = "clean.all.end" => ENABLED CleanAllEnd
               /\ tpc = "done" => log = <<RMTREE_WARNING, "All cleaned.">>

\* clean.all has ended after a failed removal of the docs output directory
C13_Witness ==
    /\ task = "clean.all"
    /\ tpc = "done"
    /\ site_dir
    /\ log = <<RMTREE_WARNING, "All cleaned.">>
    /\ exit_status = None

(***************************************************************************)
(* Properties of run.docs.                                                 *)
(***************************************************************************)
\* the server has ended with a failure
ServerFailed == ran # <<>> /\ ~ran[1].result.ok

\* C12: the browser tab is opened at most once (and then at the url of the
\* server), and not at all when the failure flag was set before the wait of
\* the opener ended.
C12_TabAtMostOnceAndNotAfterFailure ==
    /\ Len(tabs) <= 1
    /\ tabs # <<>> => tabs[1] = "http://127.0.0.1:" \o docs_args.port
    /\ wait_ret = "set" => (tabs = <<>> /\ opc \in {"check", "done"})

\* the opener has ended without opening a tab, its wait ended by the flag
C12_Witness ==
    /\ wait_ret = "set"
    /\ opc = "done"
    /\ tabs = <<>>
    /\ ServerFailed

\* C15: the opener thread ends in every execution; when the server fails
\* the task returns only once the flag is set and the opener has ended; and
\* the join of line 59 always returns.
C15_OpenerEndsAndJoinReturns ==
    /\ <>(opc = "done")
    /\ []((tpc = "done" /\ ServerFailed) => (build_error_event /\ opc = "done"))
    /\ (tpc = "docs.join") ~> (tpc = "done")

\* the task has returned after a failure of the server
C15_Witness ==
    /\ tpc = "done"
    /\ ServerFailed
    /\ build_error_event
    /\ opc = "done"

====
